---- MODULE Spec2Model ----
(***************************************************************************)
(* The LRU cache of dhyanio/go-lru (src/lru.go): a map of items, a slice   *)
(* holding the recency order, a map of write timestamps, three counters    *)
(* and one sync.RWMutex, called by goroutines.                             *)
(*                                                                         *)
(* Granularity.  A region run under the write lock (all of Put, and the    *)
(* Lock/remove/Unlock of Get's expiry path) is one action: no other        *)
(* goroutine can observe or disturb it.  What Get and Stats do under the   *)
(* READ lock is split at every access to data that another reader may be   *)
(* writing at the same time (hits, misses, order): Get writes all three    *)
(* while holding only RLock, so those accesses race, and the outcomes of   *)
(* the race are the interleavings of these steps (plus the slice-bounds    *)
(* panic of a splice with a stale index).  items, timestamps and evictions *)
(* are written only under the write lock, so reading them is merged into   *)
(* the neighbouring step.                                                  *)
(***************************************************************************)
EXTENDS Integers, Sequences, FiniteSets, TLC

\* ---------------------------------------------------------------- bounds
Keys == {"a", "b", "c"}
Values == {"v1", "v2"}
Threads == {"t1", "t2"}
MaxCapacity == 2
MaxTTL == 1
MaxTime == 2
\* Calls per run: of one goroutine alone, and of the goroutines together
\* (which call with the keys ConcKeys).
MaxSeqCalls == 4
MaxCalls == 5
ConcKeys == {"a", "b"}

NoKey == "nokey"
NoVal == "noval"

VARIABLES
    Capacity,     \* CacheOpts.Capacity
    TTL,          \* CacheOpts.TTL (0: no expiry)
    OnEvict,      \* CacheOpts.OnEvict # nil
    items,        \* Cache.items: map key -> value
    order,        \* Cache.order: slice of keys, LRU first
    timestamps,   \* Cache.timestamps: map key -> time of last Put
    hits, misses, evictions,
    readers,      \* Cache.mu: the goroutines holding the read lock
    now,          \* the wall clock read by time.Now / time.Since
    pc,           \* per goroutine: where it stands in its call
    key,          \* per goroutine: the key of the call in progress
    tmp,          \* per goroutine: a loaded counter, or the index i of updateOrder
    val,          \* per goroutine: Get's local `value`
    ret,          \* per goroutine: what the call it has just completed returned
    cbLog,        \* per goroutine: the invocations of OnEvict, <<key, value>>
                  \* each, made by its call in progress or just completed
    ncalls,       \* calls started so far (bounds the run)
    pre,          \* per goroutine: the engine state its call started from
                  \* (kept for calls that do not overlap)
    touched,      \* resident keys by last completed touch, oldest first
    written,      \* resident keys -> the value and time of their last Put
    events,       \* Get calls that returned a value, Get calls that
                  \* failed, entries removed inside Put
    seen          \* per goroutine: the values <<hits, misses, evictions>>
                  \* held since its Stats call in progress took the lock

vars == <<Capacity, TTL, OnEvict, items, order, timestamps, hits, misses,
          evictions, readers, now, pc, key, tmp, val, ret, cbLog, ncalls,
          pre, touched, written, events, seen>>

config == <<Capacity, TTL, OnEvict>>

\* ------------------------------------------------------------- Go's maps
MapSet(m, k, v) == [x \in DOMAIN m \cup {k} |-> IF x = k THEN v ELSE m[x]]
MapDelete(m, k) == [x \in DOMAIN m \ {k} |-> m[x]]
EmptyMap == [x \in {} |-> NoVal]

\* ----------------------------------------------------------- Go's slices
\* The first position of k in s (the `for i, k := range` scan), 0 if none.
IndexOf(s, k) ==
    IF \E i \in 1..Len(s) : s[i] = k
    THEN CHOOSE i \in 1..Len(s) : s[i] = k /\ \A j \in 1..(i-1) : s[j] # k
    ELSE 0

\* Mutant of Splice: the element at i is not taken out.
SpliceKeeps(s, i) == s

\* append(s[:i], s[i+1:]...) for the (1-based) position i.
Splice(s, i) == SubSeq(s, 1, i-1) \o SubSeq(s, i+1, Len(s))

\* -------------------------------------------------- the cache, as a value
\* The fields a write-locked region reads and writes, gathered in a record so
\* that remove, evict and Put compose as they do in the source.
Cache(t) ==
    [items |-> items, order |-> order, timestamps |-> timestamps,
     evictions |-> evictions, cbLog |-> cbLog[t]]

\* Mutant of Expired: an entry expires when exactly TTL has elapsed.
ExpiredAtTTL(ts, k) == TTL > 0 /\ now - ts[k] >= TTL

\* time.Since(c.timestamps[k]) > TTL with TTL > 0
Expired(ts, k) == TTL > 0 /\ now - ts[k] > TTL

\* Mutant of remove: the callback is made whether or not the key is found.
removeCallsBack(c, k) ==
    LET d == [c EXCEPT !.cbLog = IF OnEvict
                                 THEN Append(@, <<k, IF k \in DOMAIN c.items
                                                     THEN c.items[k] ELSE NoVal>>)
                                 ELSE @]
    IN  IF k \in DOMAIN c.items
        THEN [d EXCEPT
                !.items = MapDelete(c.items, k),
                !.timestamps = MapDelete(c.timestamps, k),
                !.order = IF IndexOf(c.order, k) > 0
                          THEN Splice(c.order, IndexOf(c.order, k)) ELSE @]
        ELSE d

remove(c, k) ==
    IF k \in DOMAIN c.items
    THEN [c EXCEPT
            !.items = MapDelete(c.items, k),
            !.timestamps = MapDelete(c.timestamps, k),
            !.cbLog = IF OnEvict THEN Append(@, <<k, c.items[k]>>) ELSE @,
            !.order = IF IndexOf(c.order, k) > 0
                      THEN Splice(c.order, IndexOf(c.order, k)) ELSE @]
    ELSE c

\* Mutant of evict: the most recently used key goes.
evictNewest(c) ==
    IF Len(c.order) = 0
    THEN c
    ELSE [remove(c, c.order[Len(c.order)]) EXCEPT !.evictions = @ + 1]

\* Mutant of evict: the eviction is not counted.
evictUncounted(c) ==
    IF Len(c.order) = 0
    THEN c
    ELSE remove(c, c.order[1])

evict(c) ==
    IF Len(c.order) = 0
    THEN c
    ELSE [remove(c, c.order[1]) EXCEPT !.evictions = @ + 1]

\* Mutant of updateOrder: the key's old position is kept.
updateOrderAppends(s, k) == Append(s, k)

updateOrder(s, k) ==
    Append(IF IndexOf(s, k) > 0 THEN Splice(s, IndexOf(s, k)) ELSE s, k)

\* Mutant of AtCapacity: the store counts as full one entry early.
AtCapacityEarly(c) == Cardinality(DOMAIN c.items) + 1 >= Capacity

AtCapacity(c) == Cardinality(DOMAIN c.items) >= Capacity

\* Mutant of PutCache: a resident key keeps its old value.
PutCacheKeepsValue(c, k, v) ==
    IF k \in DOMAIN c.items
    THEN [c EXCEPT !.timestamps = MapSet(@, k, now),
                   !.order = updateOrder(@, k)]
    ELSE LET e == IF AtCapacity(c) THEN evict(c) ELSE c
         IN  [e EXCEPT !.items = MapSet(@, k, v),
                       !.timestamps = MapSet(@, k, now),
                       !.order = Append(@, k)]

PutCache(c, k, v) ==
    IF k \in DOMAIN c.items
    THEN [c EXCEPT !.items = MapSet(@, k, v),
                   !.timestamps = MapSet(@, k, now),
                   !.order = updateOrder(@, k)]
    ELSE LET e == IF AtCapacity(c) THEN evict(c) ELSE c
         IN  [e EXCEPT !.items = MapSet(@, k, v),
                       !.timestamps = MapSet(@, k, now),
                       !.order = Append(@, k)]

\* ------------------------------------------------------ what a call returns
Result(op, k, err, v, found, stats) ==
    [op |-> op, key |-> k, err |-> err, val |-> v, found |-> found, stats |-> stats]
NoStats == <<0, 0, 0>>
NoResult == Result("none", NoKey, "nil", NoVal, FALSE, NoStats)

\* ------------------------------------------------- the claims' observations
\* The engine state a call starts from.
Snapshot ==
    [items |-> items, order |-> order, timestamps |-> timestamps, hits |-> hits,
     misses |-> misses, evictions |-> evictions, now |-> now,
     touched |-> touched, written |-> written]
NoSnapshot == [items |-> EmptyMap, order |-> <<>>, timestamps |-> EmptyMap,
               hits |-> 0, misses |-> 0, evictions |-> 0, now |-> 0,
               touched |-> <<>>, written |-> EmptyMap]

\* A record of touches kept apart from c.order: k becomes the newest.
Touch(s, k) == Append(SelectSeq(s, LAMBDA x : x # k), k)
\* ... and the keys no longer resident leave it.
Resident(s, m) == SelectSeq(s, LAMBDA x : x \in DOMAIN m)
\* The last Put of each key resident in m; k has just been Put with v.
Written(w, m, k, v) ==
    [x \in DOMAIN m |-> IF x = k THEN [val |-> v, time |-> now] ELSE w[x]]
StillWritten(w, m) == [x \in DOMAIN m |-> w[x]]

\* The counters as a Stats call in progress could read them all at once:
\* after every step, the values they hold join those of each such call.
Watch ==
    seen' = [t \in Threads |->
                IF pc'[t] = "stats"
                THEN (IF pc[t] = "stats" THEN seen[t] ELSE {})
                       \cup {<<hits', misses', evictions'>>}
                ELSE {}]

\* ------------------------------------------------------------------- Init
Init ==
    /\ Capacity \in 1..MaxCapacity
    /\ TTL \in 0..MaxTTL
    /\ OnEvict \in BOOLEAN
    /\ items = EmptyMap
    /\ order = <<>>
    /\ timestamps = EmptyMap
    /\ hits = 0 /\ misses = 0 /\ evictions = 0
    /\ readers = {}
    /\ now = 0
    /\ pc = [t \in Threads |-> "idle"]
    /\ key = [t \in Threads |-> NoKey]
    /\ tmp = [t \in Threads |-> 0]
    /\ val = [t \in Threads |-> NoVal]
    /\ ret = [t \in Threads |-> NoResult]
    /\ cbLog = [t \in Threads |-> <<>>]
    /\ ncalls = 0
    /\ pre = [t \in Threads |-> NoSnapshot]
    /\ touched = <<>>
    /\ written = EmptyMap
    /\ events = [ok |-> 0, failed |-> 0, removed |-> 0]
    /\ seen = [t \in Threads |-> {}]

\* A call that has returned is observed (its result, the state it started
\* from, its callbacks) before anything else happens; nothing runs after an
\* unrecovered panic, which ends the process.
Running == \A u \in Threads : pc[u] \notin {"returned", "panicked"}

\* The clock advances.
Tick ==
    /\ Running
    /\ now < MaxTime
    /\ now' = now + 1
    /\ UNCHANGED <<config, seen, items, order, timestamps, hits, misses, evictions,
                   readers, pc, key, tmp, val, ret, cbLog, ncalls, pre, touched,
                   written, events>>

\* A goroutine may start a call.
CanCall(t) == Running /\ pc[t] = "idle"

\* A call of goroutine t returns r.
Returns(t, r) ==
    /\ pc' = [pc EXCEPT ![t] = "returned"]
    /\ ret' = [ret EXCEPT ![t] = r]
    /\ key' = [key EXCEPT ![t] = NoKey]
    /\ tmp' = [tmp EXCEPT ![t] = 0]
    /\ val' = [val EXCEPT ![t] = NoVal]

\* The caller has its result; the goroutine is free for its next call.
Return(t) ==
    /\ pc[t] = "returned"
    /\ pc' = [pc EXCEPT ![t] = "idle"]
    /\ ret' = [ret EXCEPT ![t] = NoResult]
    /\ pre' = [pre EXCEPT ![t] = NoSnapshot]
    /\ cbLog' = [cbLog EXCEPT ![t] = <<>>]
    /\ UNCHANGED <<config, seen, items, order, timestamps, hits, misses, evictions,
                   readers, now, key, tmp, val, ncalls, touched, written, events>>

\* ------------------------------------------------------------------- Put
\* Lock; the body; Unlock; return nil.
Put(t, k, v) ==
    /\ CanCall(t)
    /\ readers = {}
    /\ LET c == PutCache(Cache(t), k, v) IN
        /\ items' = c.items
        /\ order' = c.order
        /\ timestamps' = c.timestamps
        /\ evictions' = c.evictions
        /\ cbLog' = [cbLog EXCEPT ![t] = c.cbLog]
        /\ touched' = Touch(Resident(touched, c.items), k)
        /\ written' = Written(written, c.items, k, v)
        /\ events' = [events EXCEPT !.removed =
                         @ + Cardinality(DOMAIN items \ DOMAIN c.items)]
    /\ Returns(t, Result("Put", k, "nil", v, FALSE, NoStats))
    /\ ncalls' = ncalls + 1
    /\ UNCHANGED <<config, seen, hits, misses, readers, now>>

\* Mutant of Has: the expiry test is left out.
HasIgnoresTTL(t, k) ==
    /\ CanCall(t)
    /\ Returns(t, Result("Has", k, "nil", NoVal, k \in DOMAIN items, NoStats))
    /\ ncalls' = ncalls + 1
    /\ UNCHANGED <<config, seen, items, order, timestamps, hits, misses, evictions,
                   readers, now, cbLog, touched, written, events>>

\* Mutant of Has: an entry found expired is removed.
HasReaps(t, k) ==
    /\ CanCall(t)
    /\ readers = {}
    /\ Returns(t, Result("Has", k, "nil", NoVal,
                         k \in DOMAIN items /\ ~Expired(timestamps, k), NoStats))
    /\ ncalls' = ncalls + 1
    /\ LET c == IF k \in DOMAIN items /\ Expired(timestamps, k)
                THEN remove(Cache(t), k) ELSE Cache(t) IN
        /\ items' = c.items
        /\ order' = c.order
        /\ timestamps' = c.timestamps
        /\ cbLog' = [cbLog EXCEPT ![t] = c.cbLog]
        /\ touched' = Resident(touched, c.items)
        /\ written' = StillWritten(written, c.items)
    /\ UNCHANGED <<config, seen, hits, misses, evictions, readers, now, events>>

\* ------------------------------------------------------------------- Has
\* RLock; the lookup and the expiry test; RUnlock; return.
Has(t, k) ==
    /\ CanCall(t)
    /\ Returns(t, Result("Has", k, "nil", NoVal,
                         k \in DOMAIN items /\ ~Expired(timestamps, k), NoStats))
    /\ ncalls' = ncalls + 1
    /\ UNCHANGED <<config, seen, items, order, timestamps, hits, misses, evictions,
                   readers, now, cbLog, touched,
                   written, events>>

\* ------------------------------------------------------------------- Get
\* RLock, the lookup in c.items and the expiry test; then the load of the
\* counter that `c.misses++` / `c.hits++` starts with, or, for an expired
\* entry, the RUnlock that opens the expiry path.
GetLookup(t, k) ==
    /\ CanCall(t)
    /\ key' = [key EXCEPT ![t] = k]
    /\ ncalls' = ncalls + 1
    /\ IF k \notin DOMAIN items
       THEN /\ readers' = readers \cup {t}
            /\ tmp' = [tmp EXCEPT ![t] = misses]
            /\ pc' = [pc EXCEPT ![t] = "missStore"]
            /\ val' = val
       ELSE IF Expired(timestamps, k)
       THEN /\ readers' = readers
            /\ tmp' = tmp
            /\ pc' = [pc EXCEPT ![t] = "expLock"]
            /\ val' = [val EXCEPT ![t] = items[k]]
       ELSE /\ readers' = readers \cup {t}
            /\ tmp' = [tmp EXCEPT ![t] = hits]
            /\ pc' = [pc EXCEPT ![t] = "hitStore"]
            /\ val' = [val EXCEPT ![t] = items[k]]
    /\ UNCHANGED <<config, seen, items, order, timestamps, hits, misses, evictions,
                   now, ret, cbLog, touched,
                   written, events>>

\* Mutant of GetMissStore: the miss is counted as a hit.
GetMissStoreCountsHit(t) ==
    /\ Running
    /\ pc[t] = "missStore"
    /\ hits' = hits + 1
    /\ readers' = readers \ {t}
    /\ Returns(t, Result("Get", key[t], "NotFound", NoVal, FALSE, NoStats))
    /\ UNCHANGED <<config, items, order, timestamps, misses, evictions, now,
                   cbLog, ncalls, pre, touched, written>>
    /\ events' = [events EXCEPT !.failed = @ + 1]
    /\ Watch

\* The store of `c.misses++`, the deferred RUnlock, return KeyNotFoundError.
GetMissStore(t) ==
    /\ Running
    /\ pc[t] = "missStore"
    /\ misses' = tmp[t] + 1
    /\ readers' = readers \ {t}
    /\ Returns(t, Result("Get", key[t], "NotFound", NoVal, FALSE, NoStats))
    /\ UNCHANGED <<config, items, order, timestamps, hits, evictions, now,
                   cbLog, ncalls, pre, touched,
                   written>>
    /\ events' = [events EXCEPT !.failed = @ + 1]
    /\ Watch

\* c.mu.Lock(); c.remove(strKey); c.mu.Unlock()
GetExpire(t) ==
    /\ Running
    /\ pc[t] = "expLock"
    /\ readers = {}
    /\ LET c == remove(Cache(t), key[t]) IN
        /\ items' = c.items
        /\ order' = c.order
        /\ timestamps' = c.timestamps
        /\ cbLog' = [cbLog EXCEPT ![t] = c.cbLog]
        /\ touched' = Resident(touched, c.items)
        /\ written' = StillWritten(written, c.items)
    /\ pc' = [pc EXCEPT ![t] = "expRLock"]
    /\ UNCHANGED <<config, seen, hits, misses, evictions, readers, now, key, tmp,
                   val, ret, ncalls, pre, events>>

\* c.mu.RLock() and the load of `c.misses++`
GetExpiredLoad(t) ==
    /\ Running
    /\ pc[t] = "expRLock"
    /\ readers' = readers \cup {t}
    /\ tmp' = [tmp EXCEPT ![t] = misses]
    /\ pc' = [pc EXCEPT ![t] = "expStore"]
    /\ UNCHANGED <<config, seen, items, order, timestamps, hits, misses, evictions,
                   now, key, val, ret, cbLog, ncalls, pre, touched,
                   written, events>>

\* The store of `c.misses++`, the deferred RUnlock, return ExpiredKeyError.
GetExpiredStore(t) ==
    /\ Running
    /\ pc[t] = "expStore"
    /\ misses' = tmp[t] + 1
    /\ readers' = readers \ {t}
    /\ Returns(t, Result("Get", key[t], "Expired", NoVal, FALSE, NoStats))
    /\ UNCHANGED <<config, items, order, timestamps, hits, evictions, now,
                   cbLog, ncalls, pre, touched,
                   written>>
    /\ events' = [events EXCEPT !.failed = @ + 1]
    /\ Watch

\* The store of `c.hits++`.
GetHitStore(t) ==
    /\ Running
    /\ pc[t] = "hitStore"
    /\ hits' = tmp[t] + 1
    /\ pc' = [pc EXCEPT ![t] = "range"]
    /\ UNCHANGED <<config, items, order, timestamps, misses, evictions, readers,
                   now, key, tmp, val, ret, cbLog, ncalls, pre, touched,
                   written, events>>
    /\ Watch

\* updateOrder, held under RLock only: `for i, k := range c.order` finds i.
GetRange(t) ==
    /\ Running
    /\ pc[t] = "range"
    /\ tmp' = [tmp EXCEPT ![t] = IndexOf(order, key[t])]
    /\ pc' = [pc EXCEPT ![t] = IF IndexOf(order, key[t]) > 0 THEN "splice" ELSE "append"]
    /\ UNCHANGED <<config, seen, items, order, timestamps, hits, misses, evictions,
                   readers, now, key, val, ret, cbLog, ncalls, pre, touched,
                   written, events>>

\* updateOrder: c.order = append(c.order[:i], c.order[i+1:]...), on the slice
\* as it is now with the i found before. c.order[i+1:] panics (slice bounds
\* out of range) when the slice has become shorter than i+1; the deferred
\* RUnlock runs and the process dies of the panic.
GetSplice(t) ==
    /\ Running
    /\ pc[t] = "splice"
    /\ IF tmp[t] > Len(order)
       THEN /\ pc' = [pc EXCEPT ![t] = "panicked"]
            /\ readers' = readers \ {t}
            /\ order' = order
       ELSE /\ pc' = [pc EXCEPT ![t] = "append"]
            /\ readers' = readers
            /\ order' = Splice(order, tmp[t])
    /\ UNCHANGED <<config, seen, items, timestamps, hits, misses, evictions, now, key,
                   tmp, val, ret, cbLog, ncalls, pre, touched,
                   written, events>>

\* Mutant of GetAppend: a successful Get refreshes the key's timestamp.
GetAppendRefreshes(t) ==
    /\ Running
    /\ pc[t] = "append"
    /\ order' = Append(order, key[t])
    /\ timestamps' = [x \in DOMAIN timestamps |->
                        IF x = key[t] THEN now ELSE timestamps[x]]
    /\ readers' = readers \ {t}
    /\ touched' = Touch(Resident(touched, items), key[t])
    /\ events' = [events EXCEPT !.ok = @ + 1]
    /\ Returns(t, Result("Get", key[t], "nil", val[t], TRUE, NoStats))
    /\ UNCHANGED <<config, seen, items, hits, misses, evictions, now,
                   cbLog, ncalls, pre, written>>

\* updateOrder: c.order = append(c.order, key); the deferred RUnlock;
\* return value, nil.
GetAppend(t) ==
    /\ Running
    /\ pc[t] = "append"
    /\ order' = Append(order, key[t])
    /\ readers' = readers \ {t}
    /\ touched' = Touch(Resident(touched, items), key[t])
    /\ events' = [events EXCEPT !.ok = @ + 1]
    /\ Returns(t, Result("Get", key[t], "nil", val[t], TRUE, NoStats))
    /\ UNCHANGED <<config, seen, items, timestamps, hits, misses, evictions, now,
                   cbLog, ncalls, pre, written>>

\* ----------------------------------------------------------------- Stats
\* RLock and the read of c.hits.
StatsHits(t) ==
    /\ CanCall(t)
    /\ readers' = readers \cup {t}
    /\ tmp' = [tmp EXCEPT ![t] = hits]
    /\ pc' = [pc EXCEPT ![t] = "stats"]
    /\ ncalls' = ncalls + 1
    /\ UNCHANGED <<config, items, order, timestamps, hits, misses, evictions,
                   now, key, val, ret, cbLog, touched,
                   written, events>>
    /\ Watch

\* The reads of c.misses and c.evictions, the deferred RUnlock, return.
StatsRest(t) ==
    /\ Running
    /\ pc[t] = "stats"
    /\ readers' = readers \ {t}
    /\ Returns(t, Result("Stats", NoKey, "nil", NoVal, FALSE,
                         <<tmp[t], misses, evictions>>))
    /\ UNCHANGED <<config, items, order, timestamps, hits, misses, evictions,
                   now, cbLog, ncalls, pre, touched,
                   written, events>>
    /\ Watch

\* ------------------------------------------------------------------ Next
\* Goroutine t goes on with the call it is in.
Proceed(t) ==
    \/ GetMissStore(t)
    \/ GetExpire(t)
    \/ GetExpiredLoad(t)
    \/ GetExpiredStore(t)
    \/ GetHitStore(t)
    \/ GetRange(t)
    \/ GetSplice(t)
    \/ GetAppend(t)
    \/ StatsRest(t)
    \/ Return(t)

\* Goroutines calling the cache concurrently.
CallPut(t, k, v) == ncalls < MaxCalls /\ Put(t, k, v) /\ pre' = pre
CallHas(t, k) == ncalls < MaxCalls /\ Has(t, k) /\ pre' = pre
CallGet(t, k) == ncalls < MaxCalls /\ GetLookup(t, k) /\ pre' = pre
CallStats(t) == ncalls < MaxCalls /\ StatsHits(t) /\ pre' = pre

Next ==
    \/ Tick
    \/ \E t \in Threads, k \in ConcKeys, v \in Values : CallPut(t, k, v)
    \/ \E t \in Threads, k \in ConcKeys : CallHas(t, k)
    \/ \E t \in Threads, k \in ConcKeys : CallGet(t, k)
    \/ \E t \in Threads : CallStats(t)
    \/ \E t \in Threads : Proceed(t)
Spec == Init /\ [][Next]_vars

\* One goroutine: every call returns before the next one starts, and the
\* state each call starts from is kept until it has returned.
SeqThread == "t1"
Observed == pre' = [pre EXCEPT ![SeqThread] = Snapshot]
SeqPut(k, v) == ncalls < MaxSeqCalls /\ Put(SeqThread, k, v) /\ Observed
SeqHas(k) == ncalls < MaxSeqCalls /\ Has(SeqThread, k) /\ Observed
SeqGet(k) == ncalls < MaxSeqCalls /\ GetLookup(SeqThread, k) /\ Observed
SeqStats == ncalls < MaxSeqCalls /\ StatsHits(SeqThread) /\ Observed

SeqNext ==
    \/ Tick
    \/ \E k \in Keys, v \in Values : SeqPut(k, v)
    \/ \E k \in Keys : SeqHas(k)
    \/ \E k \in Keys : SeqGet(k)
    \/ SeqStats
    \/ Proceed(SeqThread)
SeqSpec == Init /\ [][SeqNext]_vars

\* ================================================================ claims
\* The goroutines whose call has just returned.
Returned(t) == pc[t] = "returned"

\* C1: whenever a Put, Get, Has or Stats call has just completed, in any
\* interleaving of the goroutines' calls, the store holds at most Capacity
\* entries (Capacity >= 1).
C1_SizeWithinCapacity ==
    (\E t \in Threads : Returned(t)) => Cardinality(DOMAIN items) <= Capacity

\* A call of goroutine t has just returned: ret[t] is its result, cbLog[t]
\* the callbacks it made and, for calls that do not overlap, pre[t] the
\* state it started from.
Completed(t, op) == Returned(t) /\ ret[t].op = op
GetOk(t) == Completed(t, "Get") /\ ret[t].err = "nil"
Removed(t) == DOMAIN pre[t].items \ DOMAIN items
Elapsed(t, k) == pre[t].now - pre[t].timestamps[k]

\* C2: for calls that do not overlap, a Put of an absent key into a store
\* holding Capacity entries removes exactly one entry, the resident key whose
\* last touch (a Put of it, a successful Get of it) is the oldest, and no
\* other.
C2_EvictsLeastRecentlyTouched ==
    \A t \in Threads :
        (/\ Completed(t, "Put")
         /\ ret[t].key \notin DOMAIN pre[t].items
         /\ Cardinality(DOMAIN pre[t].items) = Capacity)
        => /\ Removed(t) = {pre[t].touched[1]}
           /\ DOMAIN items = (DOMAIN pre[t].items \ Removed(t)) \cup {ret[t].key}

\* A Put evicted although a Get had refreshed a key before it.
C2_Witness ==
    \E t \in Threads :
        /\ Completed(t, "Put")
        /\ Capacity = 2
        /\ Cardinality(Removed(t)) = 1
        /\ pre[t].hits >= 1

\* C3: a Get(k) that succeeds moves k to the most recently used end of the
\* order and keeps the relative order of all other keys; eviction takes the
\* key at the other end, so k goes after every key not touched since.
C3_GetMovesToBack ==
    \A t \in Threads :
        /\ GetOk(t) =>
             order = SelectSeq(pre[t].order, LAMBDA x : x # ret[t].key)
                       \o <<ret[t].key>>
        /\ (Completed(t, "Put") /\ Removed(t) # {}) =>
             Removed(t) = {pre[t].order[1]}

\* A successful Get of a key that was not the most recently used one.
C3_Witness ==
    \E t \in Threads :
        /\ GetOk(t)
        /\ Len(pre[t].order) = 2
        /\ pre[t].order[1] = ret[t].key
        /\ order[2] = ret[t].key

\* C4: a Get(k) issued after Put(k, v) returned, before the TTL has elapsed
\* since that Put and before k was evicted, returns v, the value of the most
\* recent Put of k; and no Get returns any other value.
C4_RoundTrip ==
    \A t \in Threads :
        Completed(t, "Get") =>
            LET k == ret[t].key
                w == pre[t].written
            IN  /\ (k \in DOMAIN w /\ (TTL = 0 \/ pre[t].now - w[k].time <= TTL))
                     => ret[t].err = "nil" /\ ret[t].val = w[k].val
                /\ ret[t].err = "nil"
                     => k \in DOMAIN w /\ ret[t].val = w[k].val

\* A Get returned the second value Put under its key.
C4_Witness ==
    \E t \in Threads :
        /\ GetOk(t)
        /\ ret[t].val = "v2"
        /\ evictions = 0
        /\ events.ok = 1
        /\ ncalls = 3

\* C5: with TTL > 0, a Get of a resident key fails with Expired and removes
\* the entry when more than TTL has elapsed since the key's last Put, and
\* returns the stored value when at most TTL has elapsed; with TTL = 0 it
\* never fails with Expired.
C5_ExpiryBoundary ==
    \A t \in Threads :
        (Completed(t, "Get") /\ ret[t].key \in DOMAIN pre[t].items) =>
            LET k == ret[t].key IN
            /\ (TTL > 0 /\ Elapsed(t, k) > TTL)
                 => ret[t].err = "Expired" /\ k \notin DOMAIN items
            /\ (TTL > 0 /\ Elapsed(t, k) <= TTL)
                 => ret[t].err = "nil" /\ ret[t].val = pre[t].items[k]
            /\ TTL = 0
                 => ret[t].err = "nil" /\ ret[t].val = pre[t].items[k]

\* A Get found its key expired.
C5_Witness ==
    \E t \in Threads :
        /\ Completed(t, "Get")
        /\ ret[t].key \in DOMAIN pre[t].items
        /\ Elapsed(t, ret[t].key) > TTL
        /\ ret[t].err = "Expired"

\* C6: a Get of a key that is not in the store fails with NotFound, adds one
\* to misses and changes nothing else: not the store, the order, the
\* timestamps, hits or evictions, and it makes no callback.
C6_GetAbsent ==
    \A t \in Threads :
        (Completed(t, "Get") /\ ret[t].key \notin DOMAIN pre[t].items) =>
            /\ ret[t].err = "NotFound"
            /\ misses = pre[t].misses + 1
            /\ items = pre[t].items
            /\ order = pre[t].order
            /\ timestamps = pre[t].timestamps
            /\ hits = pre[t].hits
            /\ evictions = pre[t].evictions
            /\ cbLog[t] = <<>>

\* A Get of a key that had been evicted came back NotFound.
C6_Witness ==
    \E t \in Threads :
        /\ Completed(t, "Get")
        /\ ret[t].err = "NotFound"
        /\ evictions = 1
        /\ items # EmptyMap

\* C7: Has(k) returns true exactly when k is in the store and, with TTL > 0,
\* no more than TTL has elapsed since k's last Put.
C7_HasLive ==
    \A t \in Threads :
        Completed(t, "Has") =>
            (ret[t].found <=>
                /\ ret[t].key \in DOMAIN pre[t].items
                /\ (TTL > 0 => Elapsed(t, ret[t].key) <= TTL))

\* Has returned false for a resident, expired key.
C7_Witness ==
    \E t \in Threads :
        /\ Completed(t, "Has")
        /\ ret[t].key \in DOMAIN items
        /\ ~ret[t].found

\* C8: Has changes nothing (store, order, timestamps, counters) and makes no
\* callback, whatever the key; an expired entry is still resident after Has
\* returned false, and a Get of a resident expired key reports Expired and
\* makes the callback once, with the key and its value.
C8_HasIsPure ==
    \A t \in Threads :
        /\ Completed(t, "Has") =>
            /\ items = pre[t].items
            /\ order = pre[t].order
            /\ timestamps = pre[t].timestamps
            /\ <<hits, misses, evictions>> =
                  <<pre[t].hits, pre[t].misses, pre[t].evictions>>
            /\ cbLog[t] = <<>>
        /\ (/\ Completed(t, "Get")
            /\ ret[t].key \in DOMAIN pre[t].items
            /\ TTL > 0
            /\ Elapsed(t, ret[t].key) > TTL) =>
            /\ ret[t].err = "Expired"
            /\ OnEvict => cbLog[t] = << <<ret[t].key, pre[t].items[ret[t].key]>> >>

\* Has has just returned false for an expired key, which is still resident.
C8_Witness ==
    \E t \in Threads :
        /\ Completed(t, "Has")
        /\ ~ret[t].found
        /\ ret[t].key \in DOMAIN items
        /\ TTL > 0
        /\ now - timestamps[ret[t].key] > TTL
        /\ OnEvict

\* The callbacks goroutine t makes in a step: what the step adds to its log
\* (the step that hands over a returned call's result only clears it).
NewCallbacks(t) ==
    IF Returned(t) /\ pc'[t] = "idle"
    THEN <<>>
    ELSE SubSeq(cbLog'[t], Len(cbLog[t]) + 1, Len(cbLog'[t]))
Leaving == DOMAIN items \ DOMAIN items'

\* C9: with a callback configured, in every step of every interleaving
\* (two overlapping Gets of one expired key included) the callbacks made are
\* exactly one per entry that leaves the store, with that entry's key and
\* the value it held; a step that removes nothing makes no callback.
C9_CallbackPerRemoval ==
    [][OnEvict =>
        /\ \A t \in Threads :
             \/ Returned(t) /\ pc'[t] = "idle"
             \/ SubSeq(cbLog'[t], 1, Len(cbLog[t])) = cbLog[t]
        /\ \A k \in Leaving :
             \E t \in Threads : NewCallbacks(t) = << <<k, items[k]>> >>
        /\ \A t \in Threads :
             /\ Len(NewCallbacks(t)) <= Cardinality(Leaving)
             /\ \A i \in 1..Len(NewCallbacks(t)) :
                  \E k \in Leaving : NewCallbacks(t)[i] = <<k, items[k]>>
        /\ Cardinality({t \in Threads : NewCallbacks(t) # <<>>})
             = Cardinality(Leaving)
      ]_vars

\* Two overlapping Gets found the same key expired; the first has removed it
\* and made the callback, the second has found nothing left to remove.
C9_Witness ==
    /\ OnEvict
    /\ pc["t1"] = "expRLock" /\ pc["t2"] = "expRLock"
    /\ key["t1"] = key["t2"]
    /\ Len(cbLog["t1"]) + Len(cbLog["t2"]) = 1

\* C10: for calls that do not overlap, Stats returns the number of Get calls
\* that returned a value, the number of Get calls that failed, and the
\* number of entries removed inside Put; a Get that finds its key expired
\* adds one miss and no eviction, and Has, Stats and a Put of a resident key
\* change no counter.
Counters == <<hits, misses, evictions>>
PreCounters(t) == <<pre[t].hits, pre[t].misses, pre[t].evictions>>
C10_CountersCountEvents ==
    \A t \in Threads :
        /\ Completed(t, "Stats") =>
             ret[t].stats = <<events.ok, events.failed, events.removed>>
        /\ (Completed(t, "Get") /\ ret[t].err = "Expired") =>
             Counters = <<pre[t].hits, pre[t].misses + 1, pre[t].evictions>>
        /\ (Completed(t, "Has") \/ Completed(t, "Stats")) =>
             Counters = PreCounters(t)
        /\ (Completed(t, "Put") /\ ret[t].key \in DOMAIN pre[t].items) =>
             Counters = PreCounters(t)

\* Stats returned after a hit, a miss and an eviction.
C10_Witness ==
    \E t \in Threads :
        /\ Completed(t, "Stats")
        /\ ret[t].stats[1] + ret[t].stats[2] >= 1
        /\ ret[t].stats[3] >= 1

\* C11: for calls that do not overlap, a Put(k, v) of a key already in the
\* store (live or expired, the store full or not) replaces k's value with
\* v, sets k's timestamp to the current time and moves k to the most
\* recently used end, keeping the other keys' values, timestamps and
\* order; it removes no entry, makes no callback, leaves the eviction
\* counter and the number of entries unchanged.
C11_PutExisting ==
    \A t \in Threads :
        (Completed(t, "Put") /\ ret[t].key \in DOMAIN pre[t].items) =>
            LET k == ret[t].key IN
            /\ items = MapSet(pre[t].items, k, ret[t].val)
            /\ timestamps = MapSet(pre[t].timestamps, k, pre[t].now)
            /\ order = SelectSeq(pre[t].order, LAMBDA x : x # k) \o <<k>>
            /\ Removed(t) = {}
            /\ cbLog[t] = <<>>
            /\ evictions = pre[t].evictions
            /\ Cardinality(DOMAIN items) = Cardinality(DOMAIN pre[t].items)

\* A Put has rewritten an expired key, the least recently used one, in a
\* full store.
C11_Witness ==
    \E t \in Threads :
        /\ Completed(t, "Put")
        /\ ret[t].key \in DOMAIN pre[t].items
        /\ Cardinality(DOMAIN pre[t].items) = Capacity
        /\ Capacity = 2
        /\ pre[t].order[1] = ret[t].key
        /\ TTL > 0
        /\ Elapsed(t, ret[t].key) > TTL
        /\ pre[t].items[ret[t].key] # ret[t].val
        /\ OnEvict

\* C12: the results and callbacks of overlapping calls equal those of some
\* one-at-a-time order of the same calls.  One at a time, a Get returns
\* Expired only after removing its key's entry, which (with a callback
\* configured) makes exactly one callback, with that key (C8); every other
\* Get, and Has and Stats, make none.  So in every interleaving a call
\* that has just returned has made the callbacks its result goes with: two
\* overlapping Gets of one expired key do not both return Expired after
\* one removal.
C12_Linearizable ==
    \A t \in Threads :
        (OnEvict /\ Returned(t)) =>
            /\ (ret[t].op = "Get" /\ ret[t].err = "Expired") =>
                 /\ Len(cbLog[t]) = 1
                 /\ cbLog[t][1][1] = ret[t].key
            /\ (ret[t].op = "Get" /\ ret[t].err # "Expired") => cbLog[t] = <<>>
            /\ ret[t].op \in {"Has", "Stats"} => cbLog[t] = <<>>

\* C13: the triple a Stats call returns is the value <<hits, misses,
\* evictions>> held at one instant between the call taking the read lock
\* and its return, whatever Get and Put calls of other goroutines overlap
\* it.
C13_StatsSnapshot ==
    [][\A t \in Threads :
         (pc[t] = "stats" /\ pc'[t] = "returned") => ret'[t].stats \in seen[t]
      ]_vars

\* The goroutines in a call that has not ended.
InCall(t) == pc[t] \notin {"idle", "returned", "panicked"}

\* C14: no call blocks for ever.  Each call is a bounded number of steps,
\* so under fair scheduling it returns unless its goroutine cannot take its
\* next step or the call ends without returning.  In every interleaving:
\* while calls are in progress some goroutine can take a step (no
\* deadlock, the hand-off of Get's expiry path included), no call ends in
\* a panic instead of returning, and a goroutine whose call has returned
\* holds no lock.
C14_CallsReturn ==
    /\ (\E t \in Threads : InCall(t)) =>
          \E t \in Threads : ENABLED Proceed(t)
    /\ \A t \in Threads : pc[t] # "panicked"
    /\ \A t \in Threads : Returned(t) => t \notin readers

\* C15: in every state where no call is in progress, after any
\* interleaving of calls, the order holds exactly the keys of the store and
\* each of them once.
C15_OrderMatchesStore ==
    (\A t \in Threads : pc[t] \in {"idle", "returned"}) =>
        /\ {order[i] : i \in 1..Len(order)} = DOMAIN items
        /\ Len(order) = Cardinality(DOMAIN items)

\* C16: the removal on Get's expiry path takes an entry out of the store,
\* and passes its value to the callback, only if at that moment more than
\* TTL has elapsed since the key's last Put; an entry that a Put of another
\* goroutine has rewritten since Get's expiry test stays.
C16_ExpiryRevalidated ==
    [][\A t \in Threads :
         (pc[t] = "expLock" /\ pc'[t] = "expRLock") =>
            /\ \A k \in Leaving : Expired(timestamps, k)
            /\ \A i \in 1..Len(NewCallbacks(t)) :
                  Expired(timestamps, NewCallbacks(t)[i][1])
      ]_vars

\* The engine state the lock guards.
Engine == <<items, order, timestamps, hits, misses, evictions>>

\* C17: every step that writes the store, the order, the timestamps or a
\* counter is taken under the exclusive lock: no goroutine holds the read
\* lock when the step starts or when it ends, so no other goroutine is
\* reading or writing that data at the same time.
C17_WritesExclusive ==
    [][Engine' # Engine => readers = {} /\ readers' = {}]_vars

\* C18: in every interleaving of overlapping calls no counter decreases in
\* any step, and whenever every call made has returned, hits + misses is
\* the number of Get calls made.
C18_NoLostUpdate ==
    [][/\ hits' >= hits
       /\ misses' >= misses
       /\ evictions' >= evictions
       /\ (\A t \in Threads : pc'[t] \in {"idle", "returned"}) =>
             hits' + misses' = events'.ok + events'.failed
      ]_vars

\* The step is goroutine t's Put of k, and the step of a Get of t that
\* found its key k expired and now removes it.
PutStep(t, k) ==
    /\ pc[t] = "idle" /\ pc'[t] = "returned"
    /\ ret'[t].op = "Put" /\ ret'[t].key = k
ExpiryStep(t, k) == pc[t] = "expLock" /\ pc'[t] = "expRLock" /\ key[t] = k

\* C19: in every step of every interleaving, an entry that leaves the store
\* is either (a) the key at the least recently used end of the order, in a
\* Put of an absent key into a store holding at least Capacity entries, and
\* then the only entry leaving, or (b) the key of a Get that has found it
\* expired.  So Has, Stats, a Put of a resident key, a Get that returns a
\* value or NotFound remove nothing, and Put removes no entry for being
\* expired.
C19_RemovalCauses ==
    [][\A k \in Leaving :
         \/ \E t \in Threads, n \in Keys :
              /\ PutStep(t, n)
              /\ n \notin DOMAIN items
              /\ Cardinality(DOMAIN items) >= Capacity
              /\ k = order[1]
              /\ Leaving = {k}
         \/ \E t \in Threads : ExpiryStep(t, k)
      ]_vars

\* A Get has just removed the expired entry of its key, in a run in which a
\* Put had evicted an entry before.
C19_Witness ==
    /\ OnEvict
    /\ events.removed >= 1
    /\ \E t \in Threads :
         /\ pc[t] = "expRLock"
         /\ Len(cbLog[t]) = 1
         /\ key[t] \notin DOMAIN items

\* C20: for calls that do not overlap, the TTL runs from a key's last Put: a
\* Get that returns a value leaves every timestamp as it was; with TTL > 0
\* a Get of a resident key made more than TTL after the key's last Put
\* fails with Expired, however many Gets of the key succeeded in between;
\* and the timestamp of every resident key is the time of its last Put.
C20_TTLFromLastWrite ==
    \A t \in Threads :
        /\ GetOk(t) => timestamps = pre[t].timestamps
        /\ (/\ Completed(t, "Get")
            /\ ret[t].key \in DOMAIN pre[t].written
            /\ TTL > 0
            /\ pre[t].now - pre[t].written[ret[t].key].time > TTL)
             => ret[t].err = "Expired"
        /\ Returned(t) =>
             \A k \in DOMAIN items :
                 k \in DOMAIN written /\ timestamps[k] = written[k].time

\* A Get found expired the one key of the run, which an earlier Get had
\* returned after its only Put.
C20_Witness ==
    \E t \in Threads :
        /\ Completed(t, "Get")
        /\ ret[t].err = "Expired"
        /\ pre[t].hits = 1
        /\ pre[t].misses = 0
        /\ ncalls = 3

====
